---- MODULE Spec2Model ----
(***************************************************************************)
(* A model of the record parsing API of igc-rs: Record::parse_line, the    *)
(* per-kind record parsers, the primitive field parsers and the Display    *)
(* implementations that render a record back to text.                      *)
(*                                                                         *)
(* A line (&str) is a sequence of bytes.  A single-byte (ASCII) character  *)
(* is one byte, written as a one-character string.  A two-byte UTF-8       *)
(* character is the lead byte LEAD followed by the continuation byte CONT. *)
(***************************************************************************)
EXTENDS Integers, Sequences, FiniteSets, TLC

VARIABLES pc, origin, line, val, res, text, res2, text2, ext_range, ext,
          iter, items, allocs

vars == <<pc, origin, line, val, res, text, res2, text2, ext_range, ext,
          iter, items, allocs>>

-----------------------------------------------------------------------------
(* Bytes, string slices and results                                        *)

LEAD == "xC3"
CONT == "xA9"

Digits == {"0", "1", "2", "3", "4", "5", "6", "7", "8", "9"}

\* u8::is_ascii
byte_is_ascii(b) == b \notin {LEAD, CONT}

\* str::is_ascii
is_ascii(s) == \A i \in 1..Len(s) : byte_is_ascii(s[i])

\* line.bytes().take(n).all(|b| b.is_ascii())
take_all_ascii(s, n) ==
    \A i \in 1..Len(s) : i <= n => byte_is_ascii(s[i])

\* A well-formed UTF-8 text: every lead byte is followed by its continuation
\* byte and every continuation byte follows a lead byte.
valid_utf8(s) ==
    \A i \in 1..Len(s) :
        /\ s[i] = LEAD => (i < Len(s) /\ s[i + 1] = CONT)
        /\ s[i] = CONT => (i > 1 /\ s[i - 1] = LEAD)

\* str::is_char_boundary, for the 0-based byte index i
is_char_boundary(s, i) ==
    \/ i = 0
    \/ i = Len(s)
    \/ (i < Len(s) /\ s[i + 1] # CONT)

\* Whether &s[a..b] is taken without a panic (ranges are 0-based, end excluded)
slice_ok(s, a, b) ==
    /\ a <= b
    /\ b <= Len(s)
    /\ is_char_boundary(s, a)
    /\ is_char_boundary(s, b)

\* &s[a..b]
slice(s, a, b) == SubSeq(s, a + 1, b)

\* &s[a..]
slice_from(s, a) == SubSeq(s, a + 1, Len(s))

NoValue == [variant |-> "NoValue"]

Ok(v) == [tag |-> "Ok", err |-> "", v |-> v]

Err(e) == [tag |-> "Err", err |-> e, v |-> NoValue]

\* A panic: a failed assertion or a slice that is out of bounds or not on a
\* character boundary.  The call does not return.
Panic(why) == [tag |-> "Panic", err |-> why, v |-> NoValue]

NoResult == [tag |-> "None", err |-> "", v |-> NoValue]

None == [some |-> FALSE, v |-> <<>>]

Some(x) == [some |-> TRUE, v |-> x]

\* DisplayOption: Some(x) prints x, None prints nothing
DisplayOption(o) == IF o.some THEN o.v ELSE <<>>

-----------------------------------------------------------------------------
(* Integers: str::parse::<uN / iN> and the {:0w} format                    *)

DigitValue(c) ==
    CASE c = "0" -> 0 [] c = "1" -> 1 [] c = "2" -> 2 [] c = "3" -> 3
      [] c = "4" -> 4 [] c = "5" -> 5 [] c = "6" -> 6 [] c = "7" -> 7
      [] c = "8" -> 8 [] c = "9" -> 9

DigitChar(d) ==
    CASE d = 0 -> "0" [] d = 1 -> "1" [] d = 2 -> "2" [] d = 3 -> "3"
      [] d = 4 -> "4" [] d = 5 -> "5" [] d = 6 -> "6" [] d = 7 -> "7"
      [] d = 8 -> "8" [] d = 9 -> "9"

RECURSIVE DecValue(_)
DecValue(s) ==
    IF s = <<>> THEN 0
    ELSE 10 * DecValue(SubSeq(s, 1, Len(s) - 1)) + DigitValue(s[Len(s)])

\* The value, when it is within the range of the integer type
int_in_range(n, lo, hi) ==
    IF n < lo \/ n > hi THEN Err("ParseIntError") ELSE Ok(n)

\* The digits after the sign: at least one, all decimal
int_from_digits(body, neg, lo, hi) ==
    IF body = <<>> \/ \E i \in 1..Len(body) : body[i] \notin Digits
    THEN Err("ParseIntError")
    ELSE int_in_range(IF neg THEN 0 - DecValue(body) ELSE DecValue(body), lo, hi)

\* The standard integer parser: an optional '+' (and, for a signed type, '-'),
\* then at least one decimal digit, the value within the type's range.
parse_int(s, signed, lo, hi) ==
    IF s = <<>> THEN Err("ParseIntError")
    ELSE int_from_digits(IF s[1] = "+" \/ (signed /\ s[1] = "-") THEN Tail(s) ELSE s,
                         signed /\ s[1] = "-", lo, hi)

parse_u8(s) == parse_int(s, FALSE, 0, 255)

parse_u16(s) == parse_int(s, FALSE, 0, 65535)

parse_i8(s) == parse_int(s, TRUE, -128, 127)

parse_i16(s) == parse_int(s, TRUE, -32768, 32767)

RECURSIVE DecDigits(_)
DecDigits(n) ==
    IF n < 10 THEN <<DigitChar(n)>>
    ELSE Append(DecDigits(n \div 10), DigitChar(n % 10))

RECURSIVE ZeroPad(_, _)
ZeroPad(s, w) == IF Len(s) >= w THEN s ELSE ZeroPad(<<"0">> \o s, w)

\* Zero padding of the digits to w characters, the sign put in front
fmt_int_sign_uncounted(n, w) ==
    IF n < 0 THEN <<"-">> \o ZeroPad(DecDigits(0 - n), w)
    ELSE ZeroPad(DecDigits(n), w)

\* format!("{:0w}", n): sign-aware zero padding to at least w characters
fmt_int(n, w) ==
    IF n < 0 THEN <<"-">> \o ZeroPad(DecDigits(0 - n), w - 1)
    ELSE ZeroPad(DecDigits(n), w)

-----------------------------------------------------------------------------
(* util/datetime.rs                                                        *)

\* The range check with the bounds of a clock: 23, 59, 59
Time_checked_strict(hours, minutes, seconds) ==
    IF hours.tag # "Ok" \/ minutes.tag # "Ok" \/ seconds.tag # "Ok"
    THEN Err("SyntaxError")
    ELSE IF hours.v > 23 \/ minutes.v > 59 \/ seconds.v > 59
        THEN Err("NumberOutOfRange")
    ELSE Ok([hours |-> hours.v, minutes |-> minutes.v, seconds |-> seconds.v])

\* The three integer parses in order, each with ? (a ParseIntError becomes
\* SyntaxError), then the range check
Time_checked(hours, minutes, seconds) ==
    IF hours.tag # "Ok" \/ minutes.tag # "Ok" \/ seconds.tag # "Ok"
    THEN Err("SyntaxError")
    ELSE IF hours.v > 24 \/ minutes.v > 60 \/ seconds.v > 60
        THEN Err("NumberOutOfRange")
    ELSE Ok([hours |-> hours.v, minutes |-> minutes.v, seconds |-> seconds.v])

Time_parse(s) ==
    IF Len(s) # 6 THEN Panic("assert_eq")
    ELSE IF ~is_ascii(s) THEN Err("NonASCIICharacters")
    ELSE Time_checked(parse_u8(slice(s, 0, 2)),
                      parse_u8(slice(s, 2, 4)),
                      parse_u8(slice(s, 4, 6)))

Time_fmt(t) == fmt_int(t.hours, 2) \o fmt_int(t.minutes, 2) \o fmt_int(t.seconds, 2)

Date_checked(day, month, year) ==
    IF day.tag # "Ok" \/ month.tag # "Ok" \/ year.tag # "Ok"
    THEN Err("SyntaxError")
    ELSE IF day.v > 31 \/ month.v > 12
        THEN Err("NumberOutOfRange")
    ELSE Ok([day |-> day.v, month |-> month.v, year |-> year.v])

Date_parse(s) ==
    IF Len(s) # 6 THEN Panic("assert_eq")
    ELSE IF ~is_ascii(s) THEN Err("NonASCIICharacters")
    ELSE Date_checked(parse_u8(slice(s, 0, 2)),
                      parse_u8(slice(s, 2, 4)),
                      parse_u8(slice(s, 4, 6)))

Date_fmt(d) == fmt_int(d.day, 2) \o fmt_int(d.month, 2) \o fmt_int(d.year, 2)

-----------------------------------------------------------------------------
(* util/coord.rs                                                           *)

Compass_fmt(c) ==
    CASE c = "North" -> <<"N">> [] c = "South" -> <<"S">>
      [] c = "East" -> <<"E">> [] c = "West" -> <<"W">>

RawLatitude_checked(degrees, minute_thousandths, letter) ==
    IF degrees.tag # "Ok" \/ minute_thousandths.tag # "Ok"
    THEN Err("SyntaxError")
    ELSE IF letter \notin {"N", "S"} THEN Err("SyntaxError")
    ELSE IF degrees.v > 90 \/ minute_thousandths.v > 60000
        THEN Err("NumberOutOfRange")
    ELSE Ok([degrees |-> degrees.v,
             minute_thousandths |-> minute_thousandths.v,
             sign |-> IF letter = "N" THEN "North" ELSE "South"])

RawLatitude_from_str(s) ==
    IF Len(s) # 8 THEN Panic("assert_eq")
    ELSE IF ~is_ascii(s) THEN Err("NonASCIICharacters")
    ELSE RawLatitude_checked(parse_u8(slice(s, 0, 2)),
                             parse_u16(slice(s, 2, 7)), s[8])

RawLatitude_fmt(c) ==
    fmt_int(c.degrees, 2) \o fmt_int(c.minute_thousandths, 5) \o Compass_fmt(c.sign)

\* The longitude check that takes the letter of either axis
RawLongitude_checked_any_axis(degrees, minute_thousandths, letter) ==
    IF degrees.tag # "Ok" \/ minute_thousandths.tag # "Ok"
    THEN Err("SyntaxError")
    ELSE IF letter \notin {"N", "S", "E", "W"} THEN Err("SyntaxError")
    ELSE IF degrees.v > 180 \/ minute_thousandths.v > 60000
        THEN Err("NumberOutOfRange")
    ELSE Ok([degrees |-> degrees.v,
             minute_thousandths |-> minute_thousandths.v,
             sign |-> IF letter \in {"E", "N"} THEN "East" ELSE "West"])

RawLongitude_checked(degrees, minute_thousandths, letter) ==
    IF degrees.tag # "Ok" \/ minute_thousandths.tag # "Ok"
    THEN Err("SyntaxError")
    ELSE IF letter \notin {"E", "W"} THEN Err("SyntaxError")
    ELSE IF degrees.v > 180 \/ minute_thousandths.v > 60000
        THEN Err("NumberOutOfRange")
    ELSE Ok([degrees |-> degrees.v,
             minute_thousandths |-> minute_thousandths.v,
             sign |-> IF letter = "E" THEN "East" ELSE "West"])

RawLongitude_from_str(s) ==
    IF Len(s) # 9 THEN Panic("assert_eq")
    ELSE IF ~is_ascii(s) THEN Err("NonASCIICharacters")
    ELSE RawLongitude_checked(parse_u8(slice(s, 0, 3)),
                              parse_u16(slice(s, 3, 8)), s[9])

\* The longitude with its degrees in the width of a latitude's
RawLongitude_fmt_2_digits(c) ==
    fmt_int(c.degrees, 2) \o fmt_int(c.minute_thousandths, 5) \o Compass_fmt(c.sign)

RawLongitude_fmt(c) ==
    fmt_int(c.degrees, 3) \o fmt_int(c.minute_thousandths, 5) \o Compass_fmt(c.sign)

\* lat?, then lon?
RawPosition_checked(lat, lon) ==
    IF lat.tag # "Ok" THEN lat
    ELSE IF lon.tag # "Ok" THEN lon
    ELSE Ok([lat |-> lat.v, lon |-> lon.v])

RawPosition_from_str(s) ==
    IF Len(s) # 17 THEN Panic("assert_eq")
    ELSE IF ~is_ascii(s) THEN Err("NonASCIICharacters")
    ELSE RawPosition_checked(RawLatitude_from_str(slice(s, 0, 8)),
                             RawLongitude_from_str(slice(s, 8, 17)))

RawPosition_fmt(p) == RawLatitude_fmt(p.lat) \o RawLongitude_fmt(p.lon)

-----------------------------------------------------------------------------
(* records/a_record.rs                                                     *)

\* The known manufacturers with their three-character code and, where there is
\* one, their single-character code (the match arms of parse_triple_char and
\* parse_single_char).
ManufacturerTable ==
    {
      [name |-> "Aircotec", triple |-> <<"A", "C", "T">>, single |-> <<"I">>],
      [name |-> "CambridgeAeroInstruments", triple |-> <<"C", "A", "M">>, single |-> <<"C">>],
      [name |-> "ClearNavInstruments", triple |-> <<"C", "N", "I">>, single |-> <<>>],
      [name |-> "DataSwan", triple |-> <<"D", "S", "X">>, single |-> <<"D">>],
      [name |-> "EwAvionics", triple |-> <<"E", "W", "A">>, single |-> <<"E">>],
      [name |-> "Filser", triple |-> <<"F", "I", "L">>, single |-> <<"F">>],
      [name |-> "Flarm", triple |-> <<"F", "L", "A">>, single |-> <<"G">>],
      [name |-> "Flytech", triple |-> <<"F", "L", "Y">>, single |-> <<>>],
      [name |-> "Garrecht", triple |-> <<"G", "C", "S">>, single |-> <<"A">>],
      [name |-> "ImiGlidingEquipment", triple |-> <<"I", "M", "I">>, single |-> <<"M">>],
      [name |-> "Logstream", triple |-> <<"L", "G", "S">>, single |-> <<>>],
      [name |-> "LxNavigation", triple |-> <<"L", "X", "N">>, single |-> <<"L">>],
      [name |-> "LxNav", triple |-> <<"L", "X", "V">>, single |-> <<"V">>],
      [name |-> "Naviter", triple |-> <<"N", "A", "V">>, single |-> <<>>],
      [name |-> "NewTechnologies", triple |-> <<"N", "T", "E">>, single |-> <<"N">>],
      [name |-> "NielsenKellerman", triple |-> <<"N", "K", "L">>, single |-> <<"K">>],
      [name |-> "Peschges", triple |-> <<"P", "E", "S">>, single |-> <<"P">>],
      [name |-> "PressFinishElectronics", triple |-> <<"P", "F", "E">>, single |-> <<>>],
      [name |-> "PrintTechnik", triple |-> <<"P", "R", "T">>, single |-> <<"R">>],
      [name |-> "Scheffel", triple |-> <<"S", "C", "H">>, single |-> <<"H">>],
      [name |-> "StreamlineDataInstruments", triple |-> <<"S", "D", "I">>, single |-> <<"S">>],
      [name |-> "TriadisEngineering", triple |-> <<"T", "R", "I">>, single |-> <<"T">>],
      [name |-> "Zander", triple |-> <<"Z", "A", "N">>, single |-> <<"Z">>] }

Known(name) == [name |-> name, raw |-> <<>>]

Manufacturer_parse_single_char(character) ==
    IF \E m \in ManufacturerTable : m.single = <<character>>
    THEN Known((CHOOSE m \in ManufacturerTable : m.single = <<character>>).name)
    ELSE [name |-> "UnknownSingle", raw |-> <<character>>]

Manufacturer_parse_triple_char(triple) ==
    IF \E m \in ManufacturerTable : m.triple = triple
    THEN Known((CHOOSE m \in ManufacturerTable : m.triple = triple).name)
    ELSE [name |-> "UnknownTriple", raw |-> triple]

Manufacturer_to_triple_char(m) ==
    IF m.name = "UnknownTriple" THEN Some(m.raw)
    ELSE IF \E k \in ManufacturerTable : k.name = m.name
    THEN Some((CHOOSE k \in ManufacturerTable : k.name = m.name).triple)
    ELSE None

\* The tail taken with >= in place of >: present, and empty, on a line of
\* exactly 7 bytes
ARecord_id_extension_ge(l) ==
    IF Len(l) >= 7 THEN Some(slice_from(l, 7)) ELSE None

\* let id_extension = if line.len() > 7 { Some(&line[7..]) } else { None }
ARecord_id_extension(l) ==
    IF Len(l) > 7 THEN Some(slice_from(l, 7)) ELSE None

ARecord_parse(l) ==
    IF ~slice_ok(l, 0, 1) THEN Panic("slice")
    ELSE IF slice(l, 0, 1) # <<"A">> THEN Panic("assert_eq")
    ELSE IF Len(l) < 7 THEN Err("SyntaxError")
    ELSE IF ~take_all_ascii(l, 7) THEN Err("NonASCIICharacters")
    ELSE Ok([variant |-> "A",
             manufacturer |-> Manufacturer_parse_triple_char(slice(l, 1, 4)),
             unique_id |-> slice(l, 4, 7),
             id_extension |-> ARecord_id_extension(l)])

ARecord_fmt(r) ==
    <<"A">> \o DisplayOption(Manufacturer_to_triple_char(r.manufacturer))
            \o r.unique_id \o DisplayOption(r.id_extension)

-----------------------------------------------------------------------------
(* records/b_record.rs                                                     *)

BRecord_BASE_LENGTH == 35

\* The fields in the order parse takes them, each with ?
BRecord_fields(l, timestamp, pos, pressure_alt, gps_alt) ==
    IF timestamp.tag # "Ok" THEN timestamp
    ELSE IF pos.tag # "Ok" THEN pos
    ELSE IF l[25] \notin {"A", "V"} THEN Err("SyntaxError")
    ELSE IF pressure_alt.tag # "Ok" \/ gps_alt.tag # "Ok" THEN Err("SyntaxError")
    ELSE Ok([variant |-> "B",
             timestamp |-> timestamp.v,
             pos |-> pos.v,
             fix_valid |-> IF l[25] = "A" THEN "Valid" ELSE "NavWarning",
             pressure_alt |-> pressure_alt.v,
             gps_alt |-> gps_alt.v,
             extension_string |-> slice_from(l, 35)])

BRecord_parse(l) ==
    IF Len(l) < BRecord_BASE_LENGTH THEN Err("SyntaxError")
    ELSE IF ~is_ascii(l) THEN Err("NonASCIICharacters")
    ELSE BRecord_fields(l, Time_parse(slice(l, 1, 7)),
                        RawPosition_from_str(slice(l, 7, 24)),
                        parse_i16(slice(l, 25, 30)),
                        parse_i16(slice(l, 30, 35)))

BRecord_fmt(r) ==
    <<"B">> \o Time_fmt(r.timestamp) \o RawPosition_fmt(r.pos)
            \o (IF r.fix_valid = "Valid" THEN <<"A">> ELSE <<"V">>)
            \o fmt_int(r.pressure_alt, 5) \o fmt_int(r.gps_alt, 5)
            \o r.extension_string

-----------------------------------------------------------------------------
(* records/c_record.rs                                                     *)

\* The fields in the order parse takes them, each with ?
CRecordDeclaration_fields(l, date, time, flight_date, task_id, turnpoint_count) ==
    IF date.tag # "Ok" THEN date
    ELSE IF time.tag # "Ok" THEN time
    ELSE IF flight_date.tag # "Ok" THEN flight_date
    ELSE IF task_id.tag # "Ok" \/ turnpoint_count.tag # "Ok"
        THEN Err("SyntaxError")
    ELSE Ok([variant |-> "CDeclaration",
             date |-> date.v,
             time |-> time.v,
             flight_date |-> flight_date.v,
             task_id |-> task_id.v,
             turnpoint_count |-> turnpoint_count.v,
             task_name |-> IF Len(l) > 25 THEN Some(slice_from(l, 25))
                           ELSE None])

CRecordDeclaration_parse(l) ==
    IF Len(l) < 25 THEN Err("SyntaxError")
    ELSE IF ~take_all_ascii(l, 25) THEN Err("NonASCIICharacters")
    ELSE IF l[1] # "C" THEN Panic("assert")
    ELSE CRecordDeclaration_fields(l, Date_parse(slice(l, 1, 7)),
                                   Time_parse(slice(l, 7, 13)),
                                   Date_parse(slice(l, 13, 19)),
                                   parse_u16(slice(l, 19, 23)),
                                   parse_i8(slice(l, 23, 25)))

CRecordDeclaration_fmt(r) ==
    <<"C">> \o Date_fmt(r.date) \o Time_fmt(r.time) \o Date_fmt(r.flight_date)
            \o fmt_int(r.task_id, 4) \o fmt_int(r.turnpoint_count, 2)
            \o DisplayOption(r.task_name)

CRecordTurnpoint_fields(l, position) ==
    IF position.tag # "Ok" THEN position
    ELSE Ok([variant |-> "CTurnpoint",
             position |-> position.v,
             turnpoint_name |-> IF Len(l) > 18 THEN Some(slice_from(l, 18))
                                ELSE None])

CRecordTurnpoint_parse(l) ==
    IF Len(l) < 18 THEN Err("SyntaxError")
    ELSE IF ~take_all_ascii(l, 18) THEN Err("NonASCIICharacters")
    ELSE IF l[1] # "C" THEN Panic("assert")
    ELSE CRecordTurnpoint_fields(l, RawPosition_from_str(slice(l, 1, 18)))

CRecordTurnpoint_fmt(r) ==
    <<"C">> \o RawPosition_fmt(r.position) \o DisplayOption(r.turnpoint_name)

-----------------------------------------------------------------------------
(* records/d_record.rs                                                     *)

DRecord_parse(l) ==
    IF Len(l) # 6 THEN Panic("assert_eq")
    ELSE IF l[1] # "D" THEN Panic("assert_eq")
    ELSE IF l[2] \notin {"1", "2"} THEN Err("SyntaxError")
    ELSE IF ~slice_ok(l, 2, 6) THEN Panic("slice")
    ELSE Ok([variant |-> "D",
             qualifier |-> IF l[2] = "1" THEN "Gps" ELSE "DGps",
             station_id |-> slice(l, 2, 6)])

\* The Display implementation that Record's Display delegates to for a D
\* record: the kind letter, the qualifier digit, the station id.
DRecord_fmt(r) ==
    <<"D">> \o (IF r.qualifier = "Gps" THEN <<"1">> ELSE <<"2">>) \o r.station_id

-----------------------------------------------------------------------------
(* records/e_record.rs                                                     *)

ERecord_fields(l, time) ==
    IF time.tag # "Ok" THEN time
    ELSE Ok([variant |-> "E",
             time |-> time.v,
             mnemonic |-> slice(l, 7, 10),
             text |-> IF Len(l) > 10 THEN Some(slice_from(l, 10)) ELSE None])

ERecord_parse(l) ==
    IF Len(l) < 10 THEN Err("SyntaxError")
    ELSE IF ~take_all_ascii(l, 10) THEN Err("NonASCIICharacters")
    ELSE IF l[1] # "E" THEN Panic("assert_eq")
    ELSE ERecord_fields(l, Time_parse(slice(l, 1, 7)))

ERecord_fmt(r) ==
    <<"E">> \o Time_fmt(r.time) \o r.mnemonic \o DisplayOption(r.text)

-----------------------------------------------------------------------------
(* records/f_record.rs                                                     *)

\* The fields without the check of the length of the list
FRecord_fields_any_length(time, array_str) ==
    IF time.tag # "Ok" THEN time
    ELSE Ok([variant |-> "F",
             time |-> time.v,
             satellites |-> [raw_str |-> array_str]])

FRecord_fields(time, array_str) ==
    IF time.tag # "Ok" THEN time
    ELSE IF Len(array_str) % 2 # 0 THEN Err("SyntaxError")
    ELSE Ok([variant |-> "F",
             time |-> time.v,
             satellites |-> [raw_str |-> array_str]])

FRecord_parse(l) ==
    IF Len(l) < 7 THEN Err("SyntaxError")
    ELSE IF ~is_ascii(l) THEN Err("NonASCIICharacters")
    ELSE FRecord_fields(Time_parse(slice(l, 1, 7)), slice_from(l, 7))

FRecord_fmt(r) == <<"F">> \o Time_fmt(r.time) \o r.satellites.raw_str

SatelliteArray_iter(a) == [index |-> 0, raw_str |-> a.raw_str]

\* SatelliteArrayIter::next: the value returned (ret) and the iterator after
\* the call
SatelliteArrayIter_next(it) ==
    IF it.index >= Len(it.raw_str)
    THEN [ret |-> Ok(None), it |-> it]
    ELSE IF ~slice_ok(it.raw_str, it.index, it.index + 2)
        THEN [ret |-> Panic("slice"), it |-> it]
    ELSE [ret |-> Ok(Some(slice(it.raw_str, it.index, it.index + 2))),
          it |-> [it EXCEPT !.index = it.index + 2]]

-----------------------------------------------------------------------------
(* records/g_record.rs, records/l_record.rs                                *)

GRecord_parse(l) ==
    IF Len(l) = 0 THEN Panic("index")
    ELSE IF l[1] # "G" THEN Panic("assert_eq")
    ELSE Ok([variant |-> "G", data |-> slice_from(l, 1)])

GRecord_fmt(r) == <<"G">> \o r.data

LRecord_parse(l) ==
    IF Len(l) = 0 THEN Panic("index")
    ELSE IF l[1] # "L" THEN Panic("assert_eq")
    ELSE Ok([variant |-> "L", log_string |-> slice_from(l, 1)])

LRecord_fmt(r) == <<"L">> \o r.log_string

-----------------------------------------------------------------------------
(* records/h_record.rs                                                     *)

DataSource_from_byte(byte) ==
    CASE byte = "F" -> [name |-> "FVU", byte |-> ""]
      [] byte = "O" -> [name |-> "OfficialObserver", byte |-> ""]
      [] byte = "P" -> [name |-> "Pilot", byte |-> ""]
      [] OTHER -> [name |-> "Unrecognized", byte |-> byte]

DataSource_to_byte(d) ==
    CASE d.name = "FVU" -> "F"
      [] d.name = "OfficialObserver" -> "O"
      [] d.name = "Pilot" -> "P"
      [] OTHER -> d.byte

\* str::rfind(':'): the 0-based index of the last occurrence, if any
str_rfind(s, c) ==
    IF \E i \in 1..Len(s) : s[i] = c
    THEN Some((CHOOSE i \in 1..Len(s) :
                  s[i] = c /\ \A j \in (i + 1)..Len(s) : s[j] # c) - 1)
    ELSE None

\* str::find(':'): the 0-based index of the first occurrence, if any
str_find(s, c) ==
    IF \E i \in 1..Len(s) : s[i] = c
    THEN Some((CHOOSE i \in 1..Len(s) :
                  s[i] = c /\ \A j \in 1..(i - 1) : s[j] # c) - 1)
    ELSE None

\* The fields of the record, given the result of line[5..].find(':')
HRecord_split(l, found) ==
    Ok([variant |-> "H",
        data_source |-> DataSource_from_byte(l[2]),
        mnemonic |-> slice(l, 2, 5),
        friendly_name |-> IF found.some THEN Some(slice(l, 5, found.v + 5))
                          ELSE None,
        data |-> IF found.some THEN slice_from(l, found.v + 5 + 1)
                 ELSE slice_from(l, 5)])

HRecord_parse(l) ==
    IF Len(l) = 0 THEN Panic("index")
    ELSE IF l[1] # "H" THEN Panic("assert_eq")
    ELSE IF Len(l) < 6 THEN Err("SyntaxError")
    ELSE IF ~take_all_ascii(l, 5) THEN Err("NonASCIICharacters")
    ELSE HRecord_split(l, str_find(slice_from(l, 5), ":"))

\* The record printed with its colon only when the name is not empty
HRecord_fmt_unnamed_no_colon(r) ==
    IF r.friendly_name.some /\ r.friendly_name.v # <<>>
    THEN <<"H", DataSource_to_byte(r.data_source)>> \o r.mnemonic
             \o r.friendly_name.v \o <<":">> \o r.data
    ELSE <<"H", DataSource_to_byte(r.data_source)>> \o r.mnemonic \o r.data

\* The data source byte is printed "as char"; it is a single-byte character
\* in every record the parser produces.
HRecord_fmt(r) ==
    IF r.friendly_name.some
    THEN <<"H", DataSource_to_byte(r.data_source)>> \o r.mnemonic
             \o r.friendly_name.v \o <<":">> \o r.data
    ELSE <<"H", DataSource_to_byte(r.data_source)>> \o r.mnemonic \o r.data

-----------------------------------------------------------------------------
(* records/extension.rs, records/i_record.rs, records/j_record.rs          *)

Extension_STRING_LENGTH == 7

\* The range without the ordering check
ExtensionRange_unordered(string, start_byte, end_byte) ==
    IF ~slice_ok(string, 0, 2) THEN Panic("slice")
    ELSE IF start_byte.tag # "Ok" THEN Err("SyntaxError")
    ELSE IF ~slice_ok(string, 2, 4) THEN Panic("slice")
    ELSE IF end_byte.tag # "Ok" THEN Err("SyntaxError")
    ELSE Ok([start_byte |-> start_byte.v, end_byte |-> end_byte.v])

\* The two integer parses in order, each of a slice and with ?, then the
\* ordering check
ExtensionRange_checked(string, start_byte, end_byte) ==
    IF ~slice_ok(string, 0, 2) THEN Panic("slice")
    ELSE IF start_byte.tag # "Ok" THEN Err("SyntaxError")
    ELSE IF ~slice_ok(string, 2, 4) THEN Panic("slice")
    ELSE IF end_byte.tag # "Ok" THEN Err("SyntaxError")
    ELSE IF end_byte.v < start_byte.v THEN Err("BadExtension")
    ELSE Ok([start_byte |-> start_byte.v, end_byte |-> end_byte.v])

ExtensionRange_parse(string) ==
    IF Len(string) # 4 THEN Err("SyntaxError")
    ELSE ExtensionRange_checked(string, parse_u8(slice(string, 0, 2)),
                                parse_u8(slice(string, 2, 4)))

ExtensionRange_fmt(r) == fmt_int(r.start_byte, 2) \o fmt_int(r.end_byte, 2)

Extension_fields(string, range) ==
    IF ~slice_ok(string, 0, 4) THEN Panic("slice")
    ELSE IF range.tag # "Ok" THEN range
    ELSE IF ~slice_ok(string, 4, 7) THEN Panic("slice")
    ELSE Ok([range |-> range.v, mnemonic |-> slice(string, 4, 7)])

Extension_parse(string) ==
    IF Len(string) # Extension_STRING_LENGTH THEN Err("SyntaxError")
    ELSE Extension_fields(string, ExtensionRange_parse(slice(string, 0, 4)))

Extension_fmt(e) == ExtensionRange_fmt(e.range) \o e.mnemonic

\* The length of the next chunk of .chunks(STRING_LENGTH)
chunk_len(bytes) ==
    IF Len(bytes) < Extension_STRING_LENGTH THEN Len(bytes)
    ELSE Extension_STRING_LENGTH

\* .chunks(STRING_LENGTH).map(from_utf8_unchecked).map(Extension::parse)
\* .collect::<Result<_, _>>(): the chunks are parsed in order and the first
\* failure ends the iteration.
RECURSIVE collect_extensions(_, _)

\* One step of the collect: the first failure ends the iteration
collect_step(bytes, acc, e) ==
    IF e.tag # "Ok" THEN e
    ELSE collect_extensions(SubSeq(bytes, chunk_len(bytes) + 1, Len(bytes)),
                            Append(acc, e.v))

collect_extensions(bytes, acc) ==
    IF bytes = <<>> THEN Ok(acc)
    ELSE collect_step(bytes, acc,
                      Extension_parse(SubSeq(bytes, 1, chunk_len(bytes))))

\* from_utf8_unchecked is handed a chunk that is not valid UTF-8 (a chunk
\* boundary splits a multi-byte character) before the iteration ends.
RECURSIVE chunks_not_utf8(_)
chunks_not_utf8(bytes) ==
    IF bytes = <<>> THEN FALSE
    ELSE \/ ~valid_utf8(SubSeq(bytes, 1, chunk_len(bytes)))
         \/ /\ Extension_parse(SubSeq(bytes, 1, chunk_len(bytes))).tag = "Ok"
            /\ chunks_not_utf8(SubSeq(bytes, chunk_len(bytes) + 1, Len(bytes)))

ExtensionDefRecord_fields(variant, num_extensions, extensions) ==
    IF extensions.tag # "Ok" THEN extensions
    ELSE Ok([variant |-> variant,
             num_extensions |-> num_extensions,
             extensions |-> extensions.v])

\* The record without the check of the length against the declared count
extension_defs_uncounted(l, variant, num_extensions) ==
    IF num_extensions.tag # "Ok" THEN Err("SyntaxError")
    ELSE ExtensionDefRecord_fields(variant, num_extensions.v,
                                   collect_extensions(slice_from(l, 3), <<>>))

extension_defs_counted(l, variant, num_extensions) ==
    IF num_extensions.tag # "Ok" THEN Err("SyntaxError")
    ELSE IF Len(l) # 3 + Extension_STRING_LENGTH * num_extensions.v
        THEN Err("SyntaxError")
    ELSE ExtensionDefRecord_fields(variant, num_extensions.v,
                                   collect_extensions(slice_from(l, 3), <<>>))

\* The body shared by ExtensionDefRecord::parse and IRecord::parse, after the
\* assertion on the first byte.
extension_defs(l, variant) ==
    IF Len(l) < 3 THEN Err("SyntaxError")
    ELSE IF ~slice_ok(l, 1, 3) THEN Panic("slice")
    ELSE extension_defs_counted(l, variant, parse_u8(slice(l, 1, 3)))

\* Whether the parse of an I or J line runs into the undefined behaviour of
\* from_utf8_unchecked
extension_defs_ub(l) ==
    /\ Len(l) >= 3
    /\ slice_ok(l, 1, 3)
    /\ parse_u8(slice(l, 1, 3)).tag = "Ok"
    /\ Len(l) = 3 + Extension_STRING_LENGTH * parse_u8(slice(l, 1, 3)).v
    /\ chunks_not_utf8(slice_from(l, 3))

IRecord_parse(l) ==
    IF Len(l) = 0 THEN Panic("index")
    ELSE IF l[1] # "I" THEN Panic("assert_eq")
    ELSE extension_defs(l, "I")

JRecord_parse(l) ==
    IF Len(l) = 0 THEN Panic("index")
    ELSE IF l[1] # "J" THEN Panic("assert")
    ELSE extension_defs(l, "J")

RECURSIVE extensions_fmt(_)
extensions_fmt(exts) ==
    IF exts = <<>> THEN <<>>
    ELSE Extension_fmt(Head(exts)) \o extensions_fmt(Tail(exts))

ExtensionDefRecord_fmt(r, letter) ==
    <<letter>> \o fmt_int(r.num_extensions, 2) \o extensions_fmt(r.extensions)

-----------------------------------------------------------------------------
(* records/k_record.rs                                                     *)

KRecord_BASE_LENGTH == 7

KRecord_fields(l, time) ==
    IF time.tag # "Ok" THEN time
    ELSE Ok([variant |-> "K",
             time |-> time.v,
             extension_string |-> slice_from(l, 7)])

KRecord_parse(l) ==
    IF Len(l) = 0 THEN Panic("index")
    ELSE IF l[1] # "K" THEN Panic("assert_eq")
    ELSE IF Len(l) <= 7 THEN Err("SyntaxError")
    ELSE IF ~slice_ok(l, 1, 7) THEN Panic("slice")
    ELSE KRecord_fields(l, Time_parse(slice(l, 1, 7)))

KRecord_fmt(r) == <<"K">> \o Time_fmt(r.time) \o r.extension_string

-----------------------------------------------------------------------------
(* records/extension.rs: Extendable                                        *)

\* The &str a call returns
Str(t) == [variant |-> "Str", text |-> t]

\* The number of values of a usize.  The width of a usize is 64 bits, and the
\* checker's integers are 32 bits wide, so the modulus is written as 2^30: a
\* wrapped difference is only ever compared with the length of a tail and used
\* as the bound of a slice, and every length is far smaller than either.
USIZE_MODULUS == 1073741824

\* a - b on usize: with overflow checks (a debug build) an underflow panics,
\* without them (a release build) it wraps
usize_sub(a, b, overflow_checks) ==
    IF a >= b THEN Ok(a - b)
    ELSE IF overflow_checks THEN Panic("attempt to subtract with overflow")
    ELSE Ok(a - b + USIZE_MODULUS)

\* Self::BASE_LENGTH of the record's kind
Extendable_BASE_LENGTH(r) ==
    IF r.variant = "B" THEN BRecord_BASE_LENGTH ELSE KRecord_BASE_LENGTH

\* self.extension_string()
Extendable_extension_string(r) == r.extension_string

\* The computed start and end, in the order they are computed, then the
\* MissingExtension check and the slice of the tail
get_extension_slice(ext_str, start, end) ==
    IF start.tag # "Ok" THEN start
    ELSE IF end.tag # "Ok" THEN end
    ELSE IF start.v >= Len(ext_str) THEN Err("MissingExtension")
    ELSE IF ~slice_ok(ext_str, start.v, end.v) THEN Panic("slice")
    ELSE Ok(Str(slice(ext_str, start.v, end.v)))

\* The computed end with a - 1 as well: the end column taken as excluded
get_extension_end_excluded(r, rg, overflow_checks) ==
    IF rg.start_byte < Extendable_BASE_LENGTH(r) THEN Err("BadExtension")
    ELSE get_extension_slice(
             Extendable_extension_string(r),
             usize_sub(rg.start_byte - Extendable_BASE_LENGTH(r), 1,
                       overflow_checks),
             usize_sub(rg.end_byte, Extendable_BASE_LENGTH(r) + 1,
                       overflow_checks))

\* The computed start without the - 1: the columns taken as 0-indexed
get_extension_0_indexed(r, rg, overflow_checks) ==
    IF rg.start_byte < Extendable_BASE_LENGTH(r) THEN Err("BadExtension")
    ELSE get_extension_slice(
             Extendable_extension_string(r),
             usize_sub(rg.start_byte - Extendable_BASE_LENGTH(r), 0,
                       overflow_checks),
             usize_sub(rg.end_byte, Extendable_BASE_LENGTH(r), overflow_checks))

get_extension(r, rg, overflow_checks) ==
    IF rg.start_byte < Extendable_BASE_LENGTH(r) THEN Err("BadExtension")
    ELSE get_extension_slice(
             Extendable_extension_string(r),
             usize_sub(rg.start_byte - Extendable_BASE_LENGTH(r), 1,
                       overflow_checks),
             usize_sub(rg.end_byte, Extendable_BASE_LENGTH(r), overflow_checks))

\* Every outcome a build can produce for get_extension: with and without
\* overflow checks
get_extension_outcomes(r, rg) ==
    { get_extension(r, rg, overflow_checks) : overflow_checks \in BOOLEAN }

-----------------------------------------------------------------------------
(* records/mod.rs                                                          *)

\* The lookahead one byte early, at line.as_bytes()[7]
c_is_turnpoint_early(l) == l[8] \in {"N", "S"}

\* match line.as_bytes()[8] { b'N' | b'S' => turnpoint, _ => declaration }
c_is_turnpoint(l) == l[9] \in {"N", "S"}

\* An Unrecognised record that drops the first byte of the line
Unrecognised_tail(l) == [variant |-> "Unrecognised", line |-> Tail(l)]

Unrecognised(l) == [variant |-> "Unrecognised", line |-> l]

parse_line(l) ==
    IF l = <<>> THEN Err("SyntaxError")
    ELSE CASE l[1] = "A" -> ARecord_parse(l)
           [] l[1] = "B" -> BRecord_parse(l)
           [] l[1] = "C" ->
                IF Len(l) < 9 THEN Err("SyntaxError")
                ELSE IF c_is_turnpoint(l) THEN CRecordTurnpoint_parse(l)
                ELSE CRecordDeclaration_parse(l)
           [] l[1] = "D" -> DRecord_parse(l)
           [] l[1] = "E" -> ERecord_parse(l)
           [] l[1] = "F" -> FRecord_parse(l)
           [] l[1] = "G" -> GRecord_parse(l)
           [] l[1] = "H" -> HRecord_parse(l)
           [] l[1] = "I" -> IRecord_parse(l)
           [] l[1] = "J" -> JRecord_parse(l)
           [] l[1] = "K" -> KRecord_parse(l)
           [] l[1] = "L" -> LRecord_parse(l)
           [] OTHER -> Ok(Unrecognised(l))

\* Every outcome a build can produce for a call whose safe-Rust result is r:
\* undefined behaviour may also end the process.
outcomes(r, undefined) ==
    IF undefined THEN {r, Panic("undefined behaviour")} ELSE {r}

\* The heap allocations of ExtensionDefRecord::parse: collect() allocates the
\* buffer of the Vec when the first chunk gives an Extension (an empty Vec
\* owns no buffer); a buffer holds the entries of every line enumerated here.
extension_defs_allocations(l) ==
    IF /\ Len(l) >= 3 + Extension_STRING_LENGTH
       /\ slice_ok(l, 1, 3)
       /\ parse_u8(slice(l, 1, 3)).tag = "Ok"
       /\ Len(l) = 3 + Extension_STRING_LENGTH * parse_u8(slice(l, 1, 3)).v
       /\ Extension_parse(SubSeq(l, 4, 3 + Extension_STRING_LENGTH)).tag = "Ok"
    THEN 1
    ELSE 0

\* The heap allocations of a parse_line call: the other parsers own no Vec,
\* String or Box
parse_line_allocations(l) ==
    IF l # <<>> /\ l[1] \in {"I", "J"} THEN extension_defs_allocations(l) ELSE 0

parse_line_outcomes(l) ==
    outcomes(parse_line(l),
             l # <<>> /\ l[1] \in {"I", "J"} /\ extension_defs_ub(l))

Record_fmt(r) ==
    CASE r.variant = "A" -> ARecord_fmt(r)
      [] r.variant = "B" -> BRecord_fmt(r)
      [] r.variant = "CDeclaration" -> CRecordDeclaration_fmt(r)
      [] r.variant = "CTurnpoint" -> CRecordTurnpoint_fmt(r)
      [] r.variant = "D" -> DRecord_fmt(r)
      [] r.variant = "E" -> ERecord_fmt(r)
      [] r.variant = "F" -> FRecord_fmt(r)
      [] r.variant = "G" -> GRecord_fmt(r)
      [] r.variant = "H" -> HRecord_fmt(r)
      [] r.variant = "I" -> ExtensionDefRecord_fmt(r, "I")
      [] r.variant = "J" -> ExtensionDefRecord_fmt(r, "J")
      [] r.variant = "K" -> KRecord_fmt(r)
      [] r.variant = "L" -> LRecord_fmt(r)
      [] r.variant = "Unrecognised" -> r.line

-----------------------------------------------------------------------------
(* The inputs: lines and record values                                     *)

\* The longest line that is enumerated byte by byte
MaxShortLen == 2

KindLetters == {"A", "B", "C", "D", "E", "F", "G", "H", "I", "J", "K", "L"}

ShortAlphabet == KindLetters \cup {"M", "N", "0", "1", "+", ":", " ", LEAD, CONT}

\* Every text of at most MaxShortLen bytes over ShortAlphabet
ShortLines ==
    UNION { { l \in [1..n -> ShortAlphabet] : valid_utf8(l) } : n \in 0..MaxShortLen }

\* Lines of every kind: the examples of the documentation and the tests, and
\* lines with boundary values, signs and malformed fields.
BaseLines ==
    {
      <<"A", "C", "A", "M", "W", "a", "t", "F", "o", "o">>,
      <<"A", "C", "0", "0", "0", "6", "9">>,
      <<"A", "F", "I", "L", "0", "1", "4", "6", "0", "F", "L", "I", "G", "H", "T", ":", "1">>,
      <<"A", "X", "Y", "Z", "a", "b", "c">>,
      <<"A", "+", "1", "2", "3", "4", "5", "6", "7", "8">>,
      <<"B", "0", "9", "4", "1", "1", "4", "5", "1", "5", "2", "2", "6", "5", "N", "0", "0", "0", "3", "2", "6", "4", "2", "W", "A", "0", "0", "1", "1", "5", "0", "0", "1", "1", "5">>,
      <<"B", "0", "9", "4", "1", "1", "4", "5", "1", "5", "2", "2", "6", "5", "N", "0", "0", "0", "3", "2", "6", "4", "2", "W", "A", "0", "0", "1", "1", "5", "-", "0", "1", "1", "6", "F", "o", "o">>,
      <<"B", "2", "4", "6", "0", "6", "0", "9", "0", "6", "0", "0", "0", "0", "S", "1", "8", "0", "6", "0", "0", "0", "0", "E", "V", "3", "2", "7", "6", "7", "0", "0", "0", "0", "0">>,
      <<"B", "+", "9", "4", "1", "1", "4", "+", "1", "5", "2", "2", "6", "5", "N", "+", "0", "0", "3", "2", "6", "4", "2", "W", "A", "+", "0", "1", "1", "5", "-", "0", "0", "0", "0">>,
      <<"B", "0", "9", "4", "1", "1", "4", "5", "1", "5", "2", "2", "6", "5", "N", "0", "0", "0", "3", "2", "6", "4", "2", "W", "A", "0", "0", "1", "1", "5", "0", "0", "1", "1", "5", "F", "o", "o", "T", "h", "e", "B", "a", "r">>,
      <<"C", "2", "3", "0", "7", "1", "8", "0", "9", "2", "0", "4", "4", "0", "0", "0", "0", "0", "0", "0", "0", "0", "2", "0", "4", "F", "o", "o", " ", "t", "a", "s", "k">>,
      <<"C", "1", "0", "0", "5", "0", "9", "1", "2", "0", "1", "5", "3", "1", "0", "0", "5", "0", "9", "0", "0", "0", "1", "-", "2">>,
      <<"C", "2", "3", "0", "7", "1", "8", "+", "9", "2", "0", "4", "4", "3", "1", "0", "7", "9", "9", "+", "0", "0", "2", "+", "4">>,
      <<"C", "5", "1", "5", "6", "0", "4", "0", "N", "0", "0", "0", "3", "8", "1", "2", "0", "W", "L", "B", "Z">>,
      <<"C", "5", "1", "5", "6", "0", "4", "0", "S", "0", "0", "0", "3", "8", "1", "2", "0", "E">>,
      <<"C", "9", "0", "6", "0", "0", "0", "0", "N", "1", "8", "0", "6", "0", "0", "0", "0", "W", "x">>,
      <<"D", "1", "A", "B", "C", "D">>,
      <<"D", "2", "A", "B", "C", "D">>,
      <<"D", "3", "A", "B", "C", "D">>,
      <<"D", "1", "A", "B", "C", "D", "E">>,
      <<"E", "1", "2", "0", "5", "1", "5", "F", "O", "O", "T", "e", "x", "t">>,
      <<"E", "1", "2", "0", "5", "1", "5", "F", "O", "O">>,
      <<"F", "0", "9", "5", "2", "1", "2", "A", "A", "B", "B", "C", "C">>,
      <<"F", "0", "9", "5", "2", "1", "2">>,
      <<"F", "0", "9", "5", "2", "1", "2", "A", "A", "B">>,
      <<"G">>,
      <<"G", "a", "b", "c">>,
      <<"G", "A", ":", "b">>,
      <<"H", "F", "G", "I", "D", "G", "L", "I", "D", "E", "R", "I", "D", ":", "D", "-", "K", "O", "O", "L">>,
      <<"H", ":", "0", "0", " ", "a", " ">>,
      <<"H", "A", "a", "A", " ", ":", "a">>,
      <<"H", "O", "P", "L", "T", "R", "o", "s", "s">>,
      <<"H", "P", "C", "I", "D", "a", ":", "b", ":", "c">>,
      <<"H", "F", "D", "T", "E">>,
      <<"H", "F", ":", "I", "D", ":", "a", ":", "b">>,
      <<"I", "0", "0">>,
      <<"I", "0", "1", "3", "6", "3", "8", "F", "X", "A">>,
      <<"I", "0", "2", "3", "6", "3", "8", "F", "X", "A", "3", "9", "4", "1", "E", "N", "L">>,
      <<"I", "0", "1", "3", "8", "3", "6", "F", "X", "A">>,
      <<"I", "0", "3", "3", "6", "3", "8", "F", "X", "A", "3", "9", "4", "1", "E", "N", "L", "4", "2", "4", "6", "T", "A", "S">>,
      <<"I", "+", "1", "3", "6", "3", "8", "F", "X", "A">>,
      <<"I", "0", "2", "+", "6", "+", "8", "F", "X", "A", "3", "9", "4", "1", "E", "N", "L">>,
      <<"J", "0", "0">>,
      <<"J", "0", "1", "3", "6", "3", "8", "F", "X", "A">>,
      <<"J", "0", "2", "3", "6", "3", "8", "F", "X", "A", "4", "1", "3", "9", "E", "N", "L">>,
      <<"K", "0", "9", "5", "2", "1", "4", "F", "o", "o", "T", "h", "e", "B", "a", "r">>,
      <<"K", "0", "9", "5", "2", "1", "4">>,
      <<"K", "2", "4", "6", "0", "6", "0", "x">>,
      <<"K", "+", "9", "+", "2", "+", "4", "F", "o", "o">>,
      <<"K", "2", "5", "0", "0", "0", "0", "F", "o", "o">>,
      <<"L">>,
      <<"L", "F", "o", "o", " ", "t", "h", "e", " ", "b", "a", "r">>,
      <<"M", "F", "o", "o">>,
      <<"1", "A", "B">>,
      <<"a">>,
      <<"Z", "a", "n", "d", "e", "r", ":", "1">> }

Prefixes(l) == { SubSeq(l, 1, n) : n \in 0..Len(l) }

\* l with the bytes k, k+1 replaced by a two-byte character
WithMultiByte(l) ==
    { [i \in 1..Len(l) |-> IF i = k THEN LEAD ELSE IF i = k + 1 THEN CONT ELSE l[i]] :
        k \in 1..(Len(l) - 1) }

\* l with a two-byte character inserted after byte k
InsertMultiByte(l) ==
    { SubSeq(l, 1, k) \o <<LEAD, CONT>> \o SubSeq(l, k + 1, Len(l)) : k \in 0..Len(l) }

PerturbBytes == {"N", "S", "9", "+", "-", ":", "X"}

\* l with one byte replaced
WithByte(l) == { [l EXCEPT ![k] = c] : k \in 1..Len(l), c \in PerturbBytes }

Lines ==
    ShortLines \cup
    UNION { Prefixes(l) \cup WithMultiByte(l) \cup InsertMultiByte(l) \cup WithByte(l) :
              l \in BaseLines }

\* Well-formed field values
Times ==
    { [hours |-> 9, minutes |-> 52, seconds |-> 14],
      [hours |-> 0, minutes |-> 0, seconds |-> 0],
      [hours |-> 24, minutes |-> 60, seconds |-> 60] }

Dates ==
    { [day |-> 23, month |-> 7, year |-> 18],
      [day |-> 1, month |-> 1, year |-> 0],
      [day |-> 31, month |-> 12, year |-> 99] }

Positions ==
    { [lat |-> [degrees |-> 51, minute_thousandths |-> 56040, sign |-> "North"],
       lon |-> [degrees |-> 0, minute_thousandths |-> 38120, sign |-> "West"]],
      [lat |-> [degrees |-> 90, minute_thousandths |-> 0, sign |-> "South"],
       lon |-> [degrees |-> 180, minute_thousandths |-> 59999, sign |-> "East"]] }

\* A tail that is present
Texts == { <<"F", "o", "o">>, <<"a", ":", "b">>, <<"x", LEAD, CONT>> }

\* An extension tail, an opaque payload or a satellite list: possibly empty
Tails == { <<>>, <<"F", "o", "o">>, <<"A", "A", "B", "B">> }

OptionalTexts == {None} \cup { Some(t) : t \in Texts }

Mnemonics == { <<"F", "X", "A">>, <<"E", "N", "L">> }

Extensions ==
    { [range |-> [start_byte |-> 36, end_byte |-> 38], mnemonic |-> <<"F", "X", "A">>],
      [range |-> [start_byte |-> 8, end_byte |-> 8], mnemonic |-> <<"E", "N", "L">>] }

ExtensionLists == { <<>> } \cup { <<e>> : e \in Extensions }
                           \cup { <<e, f>> : e \in Extensions, f \in Extensions }

\* Well-formed record values of every kind: every field within its domain
\* and its fixed width, an optional tail absent or present, the declared
\* count of an I or J record equal to the number of its entries.
Values ==
    { [variant |-> "A", manufacturer |-> m, unique_id |-> <<"W", "a", "t">>,
       id_extension |-> t] :
        m \in { Known("CambridgeAeroInstruments"), Known("Filser"),
                [name |-> "UnknownTriple", raw |-> <<"X", "Y", "Z">>] },
        t \in OptionalTexts }
    \cup
    { [variant |-> "B", timestamp |-> t, pos |-> p, fix_valid |-> f,
       pressure_alt |-> a, gps_alt |-> -116, extension_string |-> e] :
        t \in Times, p \in Positions, f \in {"Valid", "NavWarning"},
        a \in {0, 115, 32767, -9999}, e \in Tails }
    \cup
    { [variant |-> "CDeclaration", date |-> d, time |-> t, flight_date |-> d,
       task_id |-> i, turnpoint_count |-> n, task_name |-> x] :
        d \in Dates, t \in Times, i \in {0, 2, 9999}, n \in {-2, 0, 4, 99},
        x \in OptionalTexts }
    \cup
    { [variant |-> "CTurnpoint", position |-> p, turnpoint_name |-> x] :
        p \in Positions, x \in OptionalTexts }
    \cup
    { [variant |-> "D", qualifier |-> q, station_id |-> <<"A", "B", "C", "D">>] :
        q \in {"Gps", "DGps"} }
    \cup
    { [variant |-> "E", time |-> t, mnemonic |-> m, text |-> x] :
        t \in Times, m \in Mnemonics, x \in OptionalTexts }
    \cup
    { [variant |-> "F", time |-> t, satellites |-> [raw_str |-> e]] :
        t \in Times, e \in {<<>>, <<"A", "A", "B", "B">>} }
    \cup
    { [variant |-> "G", data |-> e] : e \in Tails }
    \cup
    { [variant |-> "H", data_source |-> DataSource_from_byte(b), mnemonic |-> m,
       friendly_name |-> n, data |-> d] :
        b \in {"F", "O", "P", "X"}, m \in Mnemonics,
        n \in {None, Some(<<>>), Some(<<"I", "D">>)}, d \in Tails }
    \cup
    { [variant |-> v, num_extensions |-> Len(x), extensions |-> x] :
        v \in {"I", "J"}, x \in ExtensionLists }
    \cup
    { [variant |-> "K", time |-> t, extension_string |-> e] :
        t \in Times, e \in Tails }
    \cup
    { [variant |-> "L", log_string |-> e] : e \in Tails }
    \cup
    { Unrecognised(l) : l \in { <<"M", "F", "o", "o">>, <<"1">>, <<LEAD, CONT, "A">> } }

\* Times whose components go up to the largest u8
WideTimes ==
    { [hours |-> 9, minutes |-> 52, seconds |-> 14],
      [hours |-> 255, minutes |-> 0, seconds |-> 0],
      [hours |-> 0, minutes |-> 100, seconds |-> 99] }

\* Record values of the declared field types (the fields are public): i16
\* altitudes, a u16 task id, an i8 turnpoint count, u8 columns, counts and
\* components of times and dates, up to the ends of the types
WideValues ==
    { [variant |-> "B", timestamp |-> t, pos |-> p, fix_valid |-> "Valid",
       pressure_alt |-> a, gps_alt |-> g, extension_string |-> <<"F", "o", "o">>] :
        t \in WideTimes, p \in Positions,
        a \in {-32768, -10000, -9999, -1, 32767}, g \in {-116, -32768} }
    \cup
    { [variant |-> "CDeclaration", date |-> d, time |-> t, flight_date |-> d,
       task_id |-> i, turnpoint_count |-> n, task_name |-> None] :
        d \in { [day |-> 10, month |-> 5, year |-> 9],
                [day |-> 255, month |-> 100, year |-> 200] },
        t \in WideTimes, i \in {1, 9999, 10000, 65535},
        n \in {-128, -10, -9, -2, 99, 100, 127} }
    \cup
    { [variant |-> v, num_extensions |-> n,
       extensions |-> <<[range |-> [start_byte |-> a, end_byte |-> b],
                         mnemonic |-> <<"F", "X", "A">>]>>] :
        v \in {"I", "J"}, n \in {1, 100, 255}, a \in {8, 99, 100}, b \in {99, 255} }
    \cup
    { [variant |-> "K", time |-> t, extension_string |-> <<"F", "o", "o">>] :
        t \in WideTimes }

\* The column numbers of the ranges handed to get_extension: inside, at the
\* end of and past the mandatory region of a K record (7 bytes) and of a B
\* record (35 bytes), and past the end of the tails
RangeBytes == {6, 7, 8, 10, 11, 13, 14, 16, 17, 34, 35, 36, 38, 44, 45}

\* ExtensionRange values: the fields are public, so end_byte < start_byte
\* is a value too
Ranges == [start_byte : RangeBytes, end_byte : RangeBytes]

\* Two-byte sub-fields: digits within and beyond the bounds, signs, other
\* characters, a two-byte character
TwoBytes ==
    { <<"0", "0">>, <<"0", "9">>, <<"2", "4">>, <<"2", "5">>, <<"6", "0">>,
      <<"6", "1">>, <<"9", "9">>, <<"+", "9">>, <<"-", "1">>, <<"1", "x">>,
      <<" ", "5">>, <<LEAD, CONT>> }

\* The 6-byte fields handed to Time::parse
TimeFields == { a \o b \o c : a \in TwoBytes, b \in TwoBytes, c \in TwoBytes }

\* The texts handed to ExtensionRange::parse: 4 bytes, and other lengths
RangeFields ==
    { a \o b : a \in TwoBytes, b \in TwoBytes }
    \cup { <<>>, <<"3", "6", "3">>, <<"3", "6", "3", "8", "F">> }

\* The 6-byte fields handed to Date::parse: the sub-fields of a time and the
\* first and last days and months
DateFields ==
    { a \o b \o c :
        a \in TwoBytes \cup { <<"0", "1">>, <<"3", "1">>, <<"3", "2">> },
        b \in TwoBytes \cup { <<"0", "1">>, <<"1", "2">>, <<"1", "3">> },
        c \in { <<"0", "0">>, <<"1", "8">>, <<"9", "9">>, <<"+", "9">>, <<"1", "x">> } }

\* The 5 bytes of the minute-thousandths of a coordinate
MinuteBytes ==
    { <<"0", "0", "0", "0", "0">>, <<"5", "6", "0", "4", "0">>,
      <<"5", "9", "9", "9", "9">>, <<"6", "0", "0", "0", "0">>,
      <<"6", "0", "0", "0", "1">>, <<"6", "5", "5", "3", "5">>,
      <<"6", "5", "5", "3", "6">>, <<"9", "9", "9", "9", "9">>,
      <<"+", "6", "0", "0", "0">>, <<"-", "0", "0", "0", "1">>,
      <<"6", "0", "0", "0", "x">>, <<"1", "2", "3", LEAD, CONT>> }

\* The last byte of a coordinate: the hemisphere letters and others
LetterBytes == {"N", "S", "E", "W", "n", "X", "1"}

\* The 8-byte fields handed to RawLatitude::from_str
LatitudeFields ==
    { d \o m \o <<c>> :
        d \in { <<"0", "0">>, <<"5", "1">>, <<"9", "0">>, <<"9", "1">>, <<"9", "9">>,
                <<"+", "9">>, <<"-", "1">>, <<"9", "x">> },
        m \in MinuteBytes, c \in LetterBytes }

\* The 9-byte fields handed to RawLongitude::from_str
LongitudeFields ==
    { d \o m \o <<c>> :
        d \in { <<"0", "0", "0">>, <<"0", "9", "0">>, <<"1", "8", "0">>,
                <<"1", "8", "1">>, <<"2", "5", "5">>, <<"2", "5", "6">>,
                <<"9", "9", "9">>, <<"+", "9", "0">>, <<"1", "8", "x">> },
        m \in MinuteBytes, c \in LetterBytes }

\* Time values within the bounds of Time::parse
TimeValues ==
    [hours : {0, 9, 23, 24}, minutes : {0, 5, 59, 60}, seconds : {0, 7, 59, 60}]

\* Date values within the ranges of the fields of Date
DateValues == [day : {1, 9, 10, 31}, month : {1, 9, 12}, year : {0, 9, 18, 99}]

\* Latitudes within the bounds of RawLatitude::from_str
LatitudeValues ==
    [degrees : {0, 9, 51, 90},
     minute_thousandths : {0, 7, 999, 56040, 59999, 60000},
     sign : {"North", "South"}]

\* Longitudes within the bounds of RawLongitude::from_str
LongitudeValues ==
    [degrees : {0, 9, 51, 99, 100, 180},
     minute_thousandths : {0, 7, 999, 56040, 59999, 60000},
     sign : {"East", "West"}]

-----------------------------------------------------------------------------
(* The state machine: a caller hands parse_line a line and prints the       *)
(* record, or prints a record value, and parses and prints the text again. *)

Init ==
    /\ pc = "start"
    /\ \/ origin = "line" /\ line \in Lines /\ val = NoValue
       \/ origin = "value" /\ line = <<>> /\ val \in Values
       \/ origin = "wide_value" /\ line = <<>> /\ val \in WideValues
       \/ origin = "time" /\ line \in TimeFields /\ val = NoValue
       \/ origin = "range" /\ line \in RangeFields /\ val = NoValue
       \/ origin = "date" /\ line \in DateFields /\ val = NoValue
       \/ origin = "latitude" /\ line \in LatitudeFields /\ val = NoValue
       \/ origin = "longitude" /\ line \in LongitudeFields /\ val = NoValue
       \/ origin = "time_value" /\ line = <<>> /\ val \in TimeValues
       \/ origin = "date_value" /\ line = <<>> /\ val \in DateValues
       \/ origin = "latitude_value" /\ line = <<>> /\ val \in LatitudeValues
       \/ origin = "longitude_value" /\ line = <<>> /\ val \in LongitudeValues
    /\ res = NoResult
    /\ text = <<>>
    /\ res2 = NoResult
    /\ text2 = <<>>
    /\ ext_range = [start_byte |-> 0, end_byte |-> 0]
    /\ ext = NoResult
    /\ iter = [index |-> 0, raw_str |-> <<>>]
    /\ items = <<>>
    /\ allocs = 0

\* Record::parse_line(line)
ParseLine ==
    /\ pc = "start"
    /\ origin = "line"
    /\ res' \in parse_line_outcomes(line)
    /\ allocs' = parse_line_allocations(line)
    /\ pc' = "parsed"
    /\ UNCHANGED <<origin, line, val, text, res2, text2, ext_range, ext,
                 iter, items>>

\* format!("{}", rec) of the record parse_line returned
FormatParsed ==
    /\ pc = "parsed"
    /\ res.tag = "Ok"
    /\ text' = Record_fmt(res.v)
    /\ pc' = "formatted"
    /\ UNCHANGED <<origin, line, val, res, res2, text2, ext_range, ext,
                 iter, items, allocs>>

\* format!("{}", rec) of a record value
FormatValue ==
    /\ pc = "start"
    /\ origin \in {"value", "wide_value"}
    /\ text' = Record_fmt(val)
    /\ pc' = "formatted"
    /\ UNCHANGED <<origin, line, val, res, res2, text2, ext_range, ext,
                 iter, items, allocs>>

\* Record::parse_line of the formatted text
Reparse ==
    /\ pc = "formatted"
    /\ res2' \in parse_line_outcomes(text)
    /\ allocs' = parse_line_allocations(text)
    /\ pc' = "reparsed"
    /\ UNCHANGED <<origin, line, val, res, text, text2, ext_range, ext,
                 iter, items>>

\* format!("{}", rec) of the record the second parse returned
Reformat ==
    /\ pc = "reparsed"
    /\ res2.tag = "Ok"
    /\ text2' = Record_fmt(res2.v)
    /\ pc' = "done"
    /\ UNCHANGED <<origin, line, val, res, text, res2, ext_range, ext,
                 iter, items, allocs>>

\* rec.get_extension(range) on the B or K record parse_line returned
GetExtension ==
    /\ pc = "parsed"
    /\ res.tag = "Ok"
    /\ res.v.variant \in {"B", "K"}
    /\ ext_range' \in Ranges
    /\ ext' \in get_extension_outcomes(res.v, ext_range')
    /\ pc' = "extracted"
    /\ UNCHANGED <<origin, line, val, res, text, res2, text2,
                 iter, items, allocs>>

\* Time::parse(time_string) on a 6-byte field
ParseTime ==
    /\ pc = "start"
    /\ origin = "time"
    /\ res' = Time_parse(line)
    /\ pc' = "time_parsed"
    /\ UNCHANGED <<origin, line, val, text, res2, text2, ext_range, ext,
                 iter, items, allocs>>

\* ExtensionRange::parse(string)
ParseRange ==
    /\ pc = "start"
    /\ origin = "range"
    /\ res' = ExtensionRange_parse(line)
    /\ pc' = "range_parsed"
    /\ UNCHANGED <<origin, line, val, text, res2, text2, ext_range, ext,
                 iter, items, allocs>>

\* Date::parse(date_string) on a 6-byte field
ParseDate ==
    /\ pc = "start"
    /\ origin = "date"
    /\ res' = Date_parse(line)
    /\ pc' = "date_parsed"
    /\ UNCHANGED <<origin, line, val, text, res2, text2, ext_range, ext,
                 iter, items, allocs>>

\* lat_string.parse::<RawLatitude>() on an 8-byte field
ParseLatitude ==
    /\ pc = "start"
    /\ origin = "latitude"
    /\ res' = RawLatitude_from_str(line)
    /\ pc' = "latitude_parsed"
    /\ UNCHANGED <<origin, line, val, text, res2, text2, ext_range, ext,
                 iter, items, allocs>>

\* lon_string.parse::<RawLongitude>() on a 9-byte field
ParseLongitude ==
    /\ pc = "start"
    /\ origin = "longitude"
    /\ res' = RawLongitude_from_str(line)
    /\ pc' = "longitude_parsed"
    /\ UNCHANGED <<origin, line, val, text, res2, text2, ext_range, ext,
                 iter, items, allocs>>

\* Time::parse(&format!("{}", time))
TimeParseBack ==
    /\ pc = "start"
    /\ origin = "time_value"
    /\ text' = Time_fmt(val)
    /\ res2' = Time_parse(Time_fmt(val))
    /\ pc' = "parsed_back"
    /\ UNCHANGED <<origin, line, val, res, text2, ext_range, ext,
                 iter, items, allocs>>

\* Date::parse(&format!("{}", date))
DateParseBack ==
    /\ pc = "start"
    /\ origin = "date_value"
    /\ text' = Date_fmt(val)
    /\ res2' = Date_parse(Date_fmt(val))
    /\ pc' = "parsed_back"
    /\ UNCHANGED <<origin, line, val, res, text2, ext_range, ext,
                 iter, items, allocs>>

\* format!("{}", lat).parse::<RawLatitude>()
LatitudeParseBack ==
    /\ pc = "start"
    /\ origin = "latitude_value"
    /\ text' = RawLatitude_fmt(val)
    /\ res2' = RawLatitude_from_str(RawLatitude_fmt(val))
    /\ pc' = "parsed_back"
    /\ UNCHANGED <<origin, line, val, res, text2, ext_range, ext,
                 iter, items, allocs>>

\* format!("{}", lon).parse::<RawLongitude>()
LongitudeParseBack ==
    /\ pc = "start"
    /\ origin = "longitude_value"
    /\ text' = RawLongitude_fmt(val)
    /\ res2' = RawLongitude_from_str(RawLongitude_fmt(val))
    /\ pc' = "parsed_back"
    /\ UNCHANGED <<origin, line, val, res, text2, ext_range, ext,
                 iter, items, allocs>>

\* rec.satellites.iter() on the F record parse_line returned
SatellitesIter ==
    /\ pc = "parsed"
    /\ res.tag = "Ok"
    /\ res.v.variant = "F"
    /\ iter' = SatelliteArray_iter(res.v.satellites)
    /\ items' = <<>>
    /\ pc' = "iterating"
    /\ UNCHANGED <<origin, line, val, res, text, res2, text2, ext_range, ext,
                 allocs>>

\* One call of next() by a caller that collects the items: an item is
\* kept, None ends the iteration
IterNext ==
    /\ pc = "iterating"
    /\ iter' = SatelliteArrayIter_next(iter).it
    /\ items' = IF /\ SatelliteArrayIter_next(iter).ret.tag = "Ok"
                   /\ SatelliteArrayIter_next(iter).ret.v.some
                THEN Append(items, SatelliteArrayIter_next(iter).ret.v.v)
                ELSE items
    /\ pc' = IF SatelliteArrayIter_next(iter).ret.tag # "Ok" THEN "iter_panicked"
             ELSE IF SatelliteArrayIter_next(iter).ret.v.some THEN "iterating"
             ELSE "iterated"
    /\ UNCHANGED <<origin, line, val, res, text, res2, text2, ext_range, ext,
                 allocs>>

Next ==
    \/ ParseLine \/ FormatParsed \/ FormatValue \/ Reparse \/ Reformat
    \/ GetExtension \/ ParseTime \/ ParseRange
    \/ ParseDate \/ ParseLatitude \/ ParseLongitude
    \/ TimeParseBack \/ DateParseBack \/ LatitudeParseBack \/ LongitudeParseBack
    \/ SatellitesIter \/ IterNext

Spec == Init /\ [][Next]_vars

-----------------------------------------------------------------------------
(* Properties of Record::parse_line and of the round trips                 *)

\* The mandatory-field width of the kind of a line that starts with a kind
\* letter, in bytes (0 for the kinds G and L, which have no mandatory field).
\* A C-led line is a turnpoint when its 9th byte is a hemisphere letter.
MandatoryWidth(l) ==
    CASE l[1] = "A" -> 7
      [] l[1] = "B" -> 35
      [] l[1] = "C" -> IF Len(l) >= 9 /\ l[9] \in {"N", "S"} THEN 18 ELSE 25
      [] l[1] = "D" -> 6
      [] l[1] = "E" -> 10
      [] l[1] = "F" -> 7
      [] l[1] = "H" -> 5
      [] l[1] \in {"I", "J"} -> 3
      [] l[1] = "K" -> 7
      [] OTHER -> 0

\* C1: Record::parse_line never panics: for every text input it returns
\* Ok(record) or Err(ParseError) and never aborts on an assertion, an index out
\* of bounds or a slice that is not on a character boundary.
C1_NeverPanics == pc = "parsed" => res.tag \in {"Ok", "Err"}

\* C2: parse-then-format is the identity on text: the text that formatting an
\* accepted line's record gives equals the line, byte for byte.
C2_ParseThenFormat == (origin = "line" /\ pc = "formatted") => text = line

\* C3: format-then-parse is the identity on values: parsing the text of a
\* well-formed record value returns Ok of that very value.
C3_FormatThenParse == (origin = "value" /\ pc = "reparsed") => res2 = Ok(val)

\* C4: formatting is idempotent through a decode: parsing the text of a
\* well-formed record value succeeds, and formatting the parsed record gives
\* the same text again.
C4_FormatIdempotent ==
    origin = "value" =>
        /\ pc = "reparsed" => res2.tag = "Ok"
        /\ pc = "done" => text2 = text

\* C5: a line that is too short always yields SyntaxError: the empty line, and
\* every line that starts with a kind letter and is shorter than the
\* mandatory-field width of its kind.
C5_TooShortIsSyntax ==
    (pc = "parsed" /\ (line = <<>> \/ Len(line) < MandatoryWidth(line)))
        => res = Err("SyntaxError")

\* C6: every per-kind parser rejects multi-byte text in its fixed-width region:
\* a line at least as long as the mandatory fields of its kind, with a byte of
\* a multi-byte character among them, yields NonASCIICharacters (and so no
\* panic on a slice).
C6_MultiByteIsNonAscii ==
    (/\ pc = "parsed"
     /\ line # <<>>
     /\ Len(line) >= MandatoryWidth(line)
     /\ \E i \in 1..MandatoryWidth(line) : ~byte_is_ascii(line[i]))
        => res = Err("NonASCIICharacters")

\* C7: an unrecognised kind is a value, not an error: for a non-empty line
\* whose first byte is no kind letter, parse_line returns Ok(Unrecognised)
\* holding the whole line unchanged, and formatting that record gives the
\* line back.
C7_UnrecognisedIsValue ==
    (origin = "line" /\ line # <<>> /\ line[1] \notin KindLetters) =>
        /\ pc # "start" =>
              res = [tag |-> "Ok", err |-> "",
                     v |-> [variant |-> "Unrecognised", line |-> line]]
        /\ pc \in {"formatted", "reparsed", "done"} => text = line

\* A line that starts with a multi-byte character was parsed as Unrecognised
\* and printed.
C7_Witness ==
    /\ origin = "line"
    /\ pc = "formatted"
    /\ Len(line) > 2
    /\ line[1] = LEAD
    /\ res.tag = "Ok"
    /\ res.v.variant = "Unrecognised"

\* C8: the dispatch of a C-led line depends only on its 9th byte: with at
\* least 9 bytes it is the turnpoint parser's result (a turnpoint or its error)
\* when the 9th byte is N or S and the declaration parser's result otherwise;
\* with fewer than 9 bytes it is SyntaxError.
C8_CDispatch ==
    (pc = "parsed" /\ line # <<>> /\ line[1] = "C") =>
        IF Len(line) < 9 THEN res = Err("SyntaxError")
        ELSE IF line[9] \in {"N", "S"}
            THEN /\ res = CRecordTurnpoint_parse(line)
                 /\ res.tag = "Ok" => res.v.variant = "CTurnpoint"
        ELSE /\ res = CRecordDeclaration_parse(line)
             /\ res.tag = "Ok" => res.v.variant = "CDeclaration"

\* A C-led line with a hemisphere letter as its 9th byte was parsed into a
\* turnpoint.
C8_Witness ==
    /\ pc = "parsed"
    /\ Len(line) >= 9
    /\ line[1] = "C"
    /\ line[9] \in {"N", "S"}
    /\ res.tag = "Ok"
    /\ res.v.variant = "CTurnpoint"

\* The legacy shapes of an A line: a 5-digit run after a single-letter code,
\* or after a triple-letter code.
LegacySingle(l) == Len(l) >= 7 /\ \A i \in 3..7 : l[i] \in Digits

LegacyTriple(l) == Len(l) >= 9 /\ \A i \in 5..9 : l[i] \in Digits

\* The tail of a line after its first n bytes: absent when there is none
TailAfter(l, n) == IF Len(l) > n THEN Some(SubSeq(l, n + 1, Len(l))) ELSE None

\* C9: an A line is parsed by the legacy layouts first: a single-letter code
\* with a 5-digit id ("AC00069": code C, id "00069", no tail), then a
\* triple-letter code with a 5-digit id ("AFIL01460FLIGHT:1": code FIL, id
\* "01460", tail "FLIGHT:1").
C9_LegacyLayouts ==
    (pc = "parsed" /\ line # <<>> /\ line[1] = "A") =>
        IF LegacySingle(line)
        THEN res = Ok([variant |-> "A",
                       manufacturer |-> Manufacturer_parse_single_char(line[2]),
                       unique_id |-> SubSeq(line, 3, 7),
                       id_extension |-> TailAfter(line, 7)])
        ELSE IF LegacyTriple(line)
        THEN res = Ok([variant |-> "A",
                       manufacturer |->
                           Manufacturer_parse_triple_char(SubSeq(line, 2, 4)),
                       unique_id |-> SubSeq(line, 5, 9),
                       id_extension |-> TailAfter(line, 9)])
        ELSE TRUE

\* C10: the current layout of an A line: with at least 7 bytes, the first 7
\* single-byte, and neither legacy shape, the manufacturer is looked up from
\* bytes 2-4 (an unknown code is kept as UnknownTriple with its 3 characters),
\* the unique id is bytes 5-7 and the tail is the rest of the line, absent when
\* the line has exactly 7 bytes.
C10_CurrentLayout ==
    (/\ pc = "parsed"
     /\ line # <<>>
     /\ line[1] = "A"
     /\ Len(line) >= 7
     /\ \A i \in 1..7 : byte_is_ascii(line[i])
     /\ ~LegacySingle(line)
     /\ ~LegacyTriple(line))
        => /\ res.tag = "Ok"
           /\ res.v.variant = "A"
           /\ res.v.manufacturer =
                 (IF \E m \in ManufacturerTable : m.triple = SubSeq(line, 2, 4)
                  THEN [name |-> (CHOOSE m \in ManufacturerTable :
                                     m.triple = SubSeq(line, 2, 4)).name,
                        raw |-> <<>>]
                  ELSE [name |-> "UnknownTriple", raw |-> SubSeq(line, 2, 4)])
           /\ res.v.unique_id = SubSeq(line, 5, 7)
           /\ res.v.id_extension =
                 (IF Len(line) = 7 THEN [some |-> FALSE, v |-> <<>>]
                  ELSE [some |-> TRUE, v |-> SubSeq(line, 8, Len(line))])

\* An A line of exactly 7 bytes with a known triple code was parsed: its tail
\* is absent.
C10_Witness ==
    /\ pc = "parsed"
    /\ Len(line) = 7
    /\ line[1] = "A"
    /\ ~LegacySingle(line)
    /\ res.tag = "Ok"
    /\ res.v.manufacturer.name = "CambridgeAeroInstruments"
    /\ res.v.id_extension = None

-----------------------------------------------------------------------------
(* Properties of get_extension                                             *)

C12_BRecordExample ==
    (/\ pc = "extracted"
     /\ res.v.variant = "B"
     /\ res.v.extension_string = <<"F", "o", "o", "T", "h", "e", "B", "a", "r">>)
        => /\ ext_range = [start_byte |-> 8, end_byte |-> 10]
                => ext.tag = "Ok" /\ ext.v.text = <<"F", "o", "o">>
           /\ ext_range = [start_byte |-> 11, end_byte |-> 13]
                => ext.tag = "Ok" /\ ext.v.text = <<"T", "h", "e">>
           /\ ext_range = [start_byte |-> 14, end_byte |-> 16]
                => ext.tag = "Ok" /\ ext.v.text = <<"B", "a", "r">>

\* C12, amended: the example is that of a K record (base length 7): for a K
\* record whose tail is "FooTheBar", the range (8, 10) yields "Foo", (11, 13)
\* yields "The" and (14, 16) yields "Bar"; for a B record with that tail these
\* ranges lie in the mandatory region and yield BadExtension.
C12_KRecordExample ==
    (/\ pc = "extracted"
     /\ res.v.extension_string = <<"F", "o", "o", "T", "h", "e", "B", "a", "r">>
     /\ ext_range \in { [start_byte |-> 8, end_byte |-> 10],
                        [start_byte |-> 11, end_byte |-> 13],
                        [start_byte |-> 14, end_byte |-> 16] })
        => IF res.v.variant = "B"
           THEN ext.tag = "Err" /\ ext.err = "BadExtension"
           ELSE /\ ext.tag = "Ok"
                /\ ext_range.start_byte = 8 => ext.v.text = <<"F", "o", "o">>
                /\ ext_range.start_byte = 11 => ext.v.text = <<"T", "h", "e">>
                /\ ext_range.start_byte = 14 => ext.v.text = <<"B", "a", "r">>

\* The range (14, 16) of a K record with the tail "FooTheBar" gave "Bar".
C12_Witness ==
    /\ pc = "extracted"
    /\ res.v.variant = "K"
    /\ res.v.extension_string = <<"F", "o", "o", "T", "h", "e", "B", "a", "r">>
    /\ ext_range = [start_byte |-> 14, end_byte |-> 16]
    /\ ext.tag = "Ok"
    /\ ext.v.text = <<"B", "a", "r">>

\* C13: a range may never address the mandatory region: for a record with
\* base length L and a range with start <= L (start = L included),
\* get_extension returns BadExtension.
C13_MandatoryRegionIsBad ==
    (pc = "extracted" /\ ext_range.start_byte <= Extendable_BASE_LENGTH(res.v))
        => ext.tag = "Err" /\ ext.err = "BadExtension"

\* C14: for a range whose start lies past the mandatory region and whose
\* computed start (start - L - 1) is at or beyond the length of the tail (an
\* empty tail included), get_extension returns MissingExtension.
C14_BeyondTailIsMissing ==
    (/\ pc = "extracted"
     /\ ext_range.start_byte > Extendable_BASE_LENGTH(res.v)
     /\ ext_range.start_byte - Extendable_BASE_LENGTH(res.v) - 1
            >= Len(res.v.extension_string))
        => ext.tag = "Err" /\ ext.err = "MissingExtension"

\* C15: get_extension is total: for every record and every range value (an end
\* beyond the line, an end before the start) it returns Ok or an error and
\* never aborts.
C15_GetExtensionTotal == pc = "extracted" => ext.tag \in {"Ok", "Err"}

-----------------------------------------------------------------------------
(* Properties of the extension definitions and of Time::parse              *)

\* C16: a 4-character range SSEE whose end column is smaller than its start
\* column fails with BadExtension, so every ExtensionRange that parsing
\* produces, alone or inside an I or J record, has end >= start.
C16_RangeEndNotBeforeStart ==
    /\ (/\ pc = "range_parsed"
        /\ Len(line) = 4
        /\ \A i \in 1..4 : line[i] \in Digits
        /\ DecValue(SubSeq(line, 3, 4)) < DecValue(SubSeq(line, 1, 2)))
           => res = Err("BadExtension")
    /\ (pc = "range_parsed" /\ res.tag = "Ok")
           => res.v.end_byte >= res.v.start_byte
    /\ (pc = "parsed" /\ res.tag = "Ok" /\ res.v.variant \in {"I", "J"})
           => \A i \in 1..Len(res.v.extensions) :
                  res.v.extensions[i].range.end_byte
                      >= res.v.extensions[i].range.start_byte

\* A range text of 4 digits with its end before its start was rejected.
C16_Witness ==
    /\ pc = "range_parsed"
    /\ Len(line) = 4
    /\ \A i \in 1..4 : line[i] \in Digits
    /\ DecValue(SubSeq(line, 3, 4)) < DecValue(SubSeq(line, 1, 2))
    /\ res = Err("BadExtension")

\* C17: the declared count matches the entries present: an I or J line whose
\* length is not 3 + 7 * (declared count) gives SyntaxError, and every I or J
\* record that parsing produces comes from a line of exactly that length and
\* holds exactly num_extensions entries.
C17_CountMatchesEntries ==
    (pc = "parsed" /\ line # <<>> /\ line[1] \in {"I", "J"}) =>
        /\ (/\ Len(line) >= 3
            /\ line[2] \in Digits
            /\ line[3] \in Digits
            /\ Len(line) # 3 + 7 * DecValue(SubSeq(line, 2, 3)))
               => res = Err("SyntaxError")
        /\ res.tag = "Ok" =>
               /\ Len(line) = 3 + 7 * res.v.num_extensions
               /\ Len(res.v.extensions) = res.v.num_extensions

\* An I line that declares 2 extensions was parsed into a record with 2
\* entries.
C17_Witness ==
    /\ pc = "parsed"
    /\ Len(line) = 17
    /\ line[1] = "I"
    /\ res.tag = "Ok"
    /\ res.v.num_extensions = 2
    /\ Len(res.v.extensions) = 2

\* The i-th 7-byte chunk (from 1) of an I or J line
ChunkOf(l, i) == SubSeq(l, 3 + 7 * (i - 1) + 1, 3 + 7 * i)

\* The entry a chunk of 4 digits and a 3-byte mnemonic stands for
EntryOf(chunk) ==
    [range |-> [start_byte |-> DecValue(SubSeq(chunk, 1, 2)),
                end_byte |-> DecValue(SubSeq(chunk, 3, 4))],
     mnemonic |-> SubSeq(chunk, 5, 7)]

C19_TimeLaxBounds ==
    pc = "time_parsed" =>
        /\ (\A i \in 1..6 : line[i] \in Digits) =>
               IF /\ DecValue(SubSeq(line, 1, 2)) <= 24
                  /\ DecValue(SubSeq(line, 3, 4)) <= 60
                  /\ DecValue(SubSeq(line, 5, 6)) <= 60
               THEN res = Ok([hours |-> DecValue(SubSeq(line, 1, 2)),
                              minutes |-> DecValue(SubSeq(line, 3, 4)),
                              seconds |-> DecValue(SubSeq(line, 5, 6))])
               ELSE res = Err("NumberOutOfRange")
        /\ res.tag = "Ok" =>
               res.v.hours <= 24 /\ res.v.minutes <= 60 /\ res.v.seconds <= 60

\* The field "246060" was accepted.
C19_Witness ==
    /\ pc = "time_parsed"
    /\ line = <<"2", "4", "6", "0", "6", "0">>
    /\ res = Ok([hours |-> 24, minutes |-> 60, seconds |-> 60])

\* C20: Time::parse fails with SyntaxError whenever one of the three 2-byte
\* sub-fields of a 6-byte single-byte field holds a character that is not a
\* decimal digit, a sign included.
C20_NonDigitIsSyntax ==
    (/\ pc = "time_parsed"
     /\ is_ascii(line)
     /\ \E i \in 1..6 : line[i] \notin Digits)
        => res = Err("SyntaxError")

-----------------------------------------------------------------------------
(* Properties of Date::parse, of the coordinate parsers and of the round   *)
(* trips of the primitive fields                                           *)

\* C21: every Date that parsing a 6-character DDMMYY field produces has its
\* day in 1..31, its month in 1..12 and its year in 0..99; a field with day 00
\* or month 00 is rejected.
C21_DateInCalendar ==
    pc = "date_parsed" =>
        /\ res.tag = "Ok" =>
               /\ res.v.day \in 1..31
               /\ res.v.month \in 1..12
               /\ res.v.year \in 0..99
        /\ (/\ \A i \in 1..6 : line[i] \in Digits
            /\ \/ SubSeq(line, 1, 2) = <<"0", "0">>
               \/ SubSeq(line, 3, 4) = <<"0", "0">>)
               => res.tag = "Err"

\* The hemisphere a letter stands for
CompassOf(c) ==
    CASE c = "N" -> "North" [] c = "S" -> "South"
      [] c = "E" -> "East" [] c = "W" -> "West" [] OTHER -> "none"

C23_FieldsParseBack ==
    pc = "parsed_back" => res2 = Ok(val)

\* A longitude with fewer than 3 digits of degrees was formatted and parsed
\* back to itself.
C23_Witness ==
    /\ pc = "parsed_back"
    /\ origin = "longitude_value"
    /\ val.degrees = 9
    /\ val.minute_thousandths = 7
    /\ Len(text) = 9
    /\ res2 = Ok(val)

-----------------------------------------------------------------------------
(* Properties of the H, D, B and K records                                 *)

\* The positions (from 1) of the colons of l after its 5-byte prefix
ColonsAfterPrefix(l) == { i \in 6..Len(l) : l[i] = ":" }

\* The smallest member of a non-empty set of numbers
Least(S) == CHOOSE i \in S : \A j \in S : i <= j

\* C24: the tail of an H line is split at its first colon, looked for after
\* the 5-byte prefix (a colon among the data-source or mnemonic bytes never
\* splits).  With a colon in the remainder, the name is the text before the
\* first colon (the empty text, not absent, when the colon comes first) and the
\* data is everything after that colon, further colons included; with none,
\* the name is absent and the data is the whole remainder.
C24_HTailSplit ==
    (/\ pc = "parsed"
     /\ Len(line) >= 6
     /\ line[1] = "H"
     /\ \A i \in 1..5 : byte_is_ascii(line[i]))
        => /\ res.tag = "Ok"
           /\ res.v.variant = "H"
           /\ res.v.mnemonic = SubSeq(line, 3, 5)
           /\ IF ColonsAfterPrefix(line) = {}
              THEN /\ res.v.friendly_name = None
                   /\ res.v.data = SubSeq(line, 6, Len(line))
              ELSE /\ res.v.friendly_name =
                          Some(SubSeq(line, 6, Least(ColonsAfterPrefix(line)) - 1))
                   /\ res.v.data =
                          SubSeq(line, Least(ColonsAfterPrefix(line)) + 1, Len(line))

\* An H line with a colon in its prefix, a colon right after the prefix and a
\* further colon was parsed: the name is present and empty.
C24_Witness ==
    /\ pc = "parsed"
    /\ Len(line) >= 8
    /\ line[1] = "H"
    /\ \E i \in 2..5 : line[i] = ":"
    /\ line[6] = ":"
    /\ \E i \in 7..Len(line) : line[i] = ":"
    /\ res.tag = "Ok"
    /\ res.v.friendly_name = Some(<<>>)
    /\ res.v.data = SubSeq(line, 7, Len(line))

\* C25: the closed enumerations carry unknown codes instead of failing: an H
\* line with an unknown data-source byte parses to the Unrecognized data
\* source carrying that byte, and a D line with an unknown qualifier byte
\* parses to a D record whose qualifier carries that byte; neither gives an
\* error.
C25_UnknownCodesCarried ==
    /\ (/\ pc = "parsed"
        /\ Len(line) >= 6
        /\ line[1] = "H"
        /\ \A i \in 1..5 : byte_is_ascii(line[i])
        /\ line[2] \notin {"F", "O", "P"})
           => /\ res.tag = "Ok"
              /\ res.v.data_source = [name |-> "Unrecognized", byte |-> line[2]]
    /\ (/\ pc = "parsed"
        /\ Len(line) = 6
        /\ line[1] = "D"
        /\ is_ascii(line)
        /\ line[2] \notin {"1", "2"})
           => /\ res.tag = "Ok"
              /\ res.v.variant = "D"
              /\ res.v.qualifier \notin {"Gps", "DGps"}
              /\ res.v.station_id = SubSeq(line, 3, 6)

\* C26: the extension tail of the B and K records is optional: a B line of
\* exactly 35 bytes and a K line of exactly 7 bytes, both with valid mandatory
\* fields, parse to a record whose extension tail is the empty text.
C26_TailOptional ==
    /\ (/\ pc = "parsed"
        /\ Len(line) = 35
        /\ line[1] = "B"
        /\ is_ascii(line)
        /\ Time_parse(SubSeq(line, 2, 7)).tag = "Ok"
        /\ RawPosition_from_str(SubSeq(line, 8, 24)).tag = "Ok"
        /\ line[25] \in {"A", "V"}
        /\ parse_i16(SubSeq(line, 26, 30)).tag = "Ok"
        /\ parse_i16(SubSeq(line, 31, 35)).tag = "Ok")
           => /\ res.tag = "Ok"
              /\ res.v.variant = "B"
              /\ res.v.extension_string = <<>>
    /\ (/\ pc = "parsed"
        /\ Len(line) = 7
        /\ line[1] = "K"
        /\ Time_parse(SubSeq(line, 2, 7)).tag = "Ok")
           => /\ res.tag = "Ok"
              /\ res.v.variant = "K"
              /\ res.v.extension_string = <<>>

-----------------------------------------------------------------------------
(* Properties of the F record and of the memory of the parsed records      *)

\* C27: the satellite list of an F line: parsing succeeds only when the text
\* after the 7-byte prefix has even length (with a valid time in a line of
\* single-byte characters, an odd length gives SyntaxError and an even
\* length, 0 included, is accepted), and iterating the parsed list yields
\* exactly length / 2 items, each the next 2 characters of that text in order,
\* and then ends.
C27_SatelliteList ==
    /\ (pc = "parsed" /\ line # <<>> /\ line[1] = "F" /\ res.tag = "Ok")
           => (Len(line) - 7) % 2 = 0
    /\ (/\ pc = "parsed"
        /\ Len(line) >= 7
        /\ line[1] = "F"
        /\ is_ascii(line)
        /\ Time_parse(SubSeq(line, 2, 7)).tag = "Ok")
           => IF (Len(line) - 7) % 2 = 0
              THEN /\ res.tag = "Ok"
                   /\ res.v.satellites.raw_str = SubSeq(line, 8, Len(line))
              ELSE res = Err("SyntaxError")
    /\ pc # "iter_panicked"
    /\ pc \in {"iterating", "iterated"} =>
           /\ 2 * Len(items) = iter.index
           /\ iter.index <= Len(line) - 7
           /\ \A k \in 1..Len(items) : items[k] = SubSeq(line, 6 + 2 * k, 7 + 2 * k)
    /\ pc = "iterated" => 2 * Len(items) = Len(line) - 7

\* The iteration over the list of an F line with 3 satellites has ended with
\* 3 items.
C27_Witness ==
    /\ pc = "iterated"
    /\ Len(line) = 13
    /\ Len(items) = 3
    /\ items[3] = SubSeq(line, 12, 13)

\* t is a contiguous span of l
IsSpanOf(t, l) == \E a \in 0..Len(l) : \E b \in a..Len(l) : t = SubSeq(l, a + 1, b)

\* The text of an optional text field, the empty text when it is absent
TextOf(o) == IF o.some THEN o.v ELSE <<>>

\* The text-valued fields of a record
TextFields(r) ==
    CASE r.variant = "A" -> {r.manufacturer.raw, r.unique_id, TextOf(r.id_extension)}
      [] r.variant = "B" -> {r.extension_string}
      [] r.variant = "CDeclaration" -> {TextOf(r.task_name)}
      [] r.variant = "CTurnpoint" -> {TextOf(r.turnpoint_name)}
      [] r.variant = "D" -> {r.station_id}
      [] r.variant = "E" -> {r.mnemonic, TextOf(r.text)}
      [] r.variant = "F" -> {r.satellites.raw_str}
      [] r.variant = "G" -> {r.data}
      [] r.variant = "H" -> {r.mnemonic, TextOf(r.friendly_name), r.data}
      [] r.variant \in {"I", "J"} ->
             { r.extensions[i].mnemonic : i \in 1..Len(r.extensions) }
      [] r.variant = "K" -> {r.extension_string}
      [] r.variant = "L" -> {r.log_string}
      [] r.variant = "Unrecognised" -> {r.line}

\* C28: parsing copies nothing and allocates nothing for field values: every
\* text-valued field of every parsed record (ids, mnemonics, names, tails, raw
\* unrecognized codes) is a contiguous span of the line, and a parse_line call
\* makes no heap allocation.
C28_NoCopyNoAllocation ==
    pc = "parsed" =>
        /\ allocs = 0
        /\ res.tag = "Ok" => \A t \in TextFields(res.v) : IsSpanOf(t, line)

-----------------------------------------------------------------------------
(* Properties of the formatted text                                        *)

\* The numeric fields of a time, a date and a position, each with its width
TimeNumbers(t) == { <<t.hours, 2>>, <<t.minutes, 2>>, <<t.seconds, 2>> }

DateNumbers(d) == { <<d.day, 2>>, <<d.month, 2>>, <<d.year, 2>> }

PositionNumbers(p) ==
    { <<p.lat.degrees, 2>>, <<p.lat.minute_thousandths, 5>>,
      <<p.lon.degrees, 3>>, <<p.lon.minute_thousandths, 5>> }

\* The numeric fields of a record, each with its fixed width
NumericFields(r) ==
    CASE r.variant = "B" ->
             TimeNumbers(r.timestamp) \cup PositionNumbers(r.pos)
                 \cup { <<r.pressure_alt, 5>>, <<r.gps_alt, 5>> }
      [] r.variant = "CDeclaration" ->
             DateNumbers(r.date) \cup TimeNumbers(r.time) \cup DateNumbers(r.flight_date)
                 \cup { <<r.task_id, 4>>, <<r.turnpoint_count, 2>> }
      [] r.variant = "CTurnpoint" -> PositionNumbers(r.position)
      [] r.variant \in {"E", "F", "K"} -> TimeNumbers(r.time)
      [] r.variant \in {"I", "J"} ->
             { <<r.num_extensions, 2>> }
                 \cup { <<r.extensions[i].range.start_byte, 2>> : i \in 1..Len(r.extensions) }
                 \cup { <<r.extensions[i].range.end_byte, 2>> : i \in 1..Len(r.extensions) }
      [] OTHER -> {}

\* The number of bytes of the mandatory prefix of the text of a record
PrefixLength(r) ==
    CASE r.variant = "B" -> 35
      [] r.variant = "CDeclaration" -> 25
      [] r.variant = "CTurnpoint" -> 18
      [] r.variant = "E" -> 10
      [] r.variant \in {"F", "K"} -> 7
      [] r.variant \in {"I", "J"} -> 3 + 7 * Len(r.extensions)

\* The text that follows the mandatory prefix of a record
TailText(r) ==
    CASE r.variant \in {"B", "K"} -> r.extension_string
      [] r.variant = "CDeclaration" -> TextOf(r.task_name)
      [] r.variant = "CTurnpoint" -> TextOf(r.turnpoint_name)
      [] r.variant = "E" -> TextOf(r.text)
      [] r.variant = "F" -> r.satellites.raw_str
      [] r.variant \in {"I", "J"} -> <<>>

\* The text has a prefix of the kind's length, followed by the tail
FixedWidthText(r, t) ==
    /\ Len(t) = PrefixLength(r) + Len(TailText(r))
    /\ SubSeq(t, PrefixLength(r) + 1, Len(t)) = TailText(r)

\* A number n has a decimal form, sign included, of at most w characters
FitsWidth(n, w) ==
    CASE w = 2 -> n \in -9..99
      [] w = 3 -> n \in -99..999
      [] w = 4 -> n \in -999..9999
      [] w = 5 -> n \in -9999..99999

\* C29 as stated: the formatter always emits fixed-width numeric fields: for
\* every record value of the declared field types (i16 altitudes, u16 task id,
\* i8 turnpoint count, u8 columns, counts and time and date components) each
\* numeric field is printed in exactly its width, so that the mandatory prefix
\* of the text has the base length of the kind.
C29_FixedWidthOfTypes ==
    (/\ pc = "formatted"
     /\ origin \in {"value", "wide_value"}
     /\ NumericFields(val) # {})
        => FixedWidthText(val, text)

\* C29, amended: for every record value whose numeric fields have a decimal
\* form, sign included, of at most the field's width (altitude -9999..32767,
\* task id 0..9999, turnpoint count -9..99, columns, counts and time and date
\* components 0..99), each numeric field is printed in exactly its width and
\* the mandatory prefix of the text has the base length of the kind.
C29_FixedWidthOfFitting ==
    (/\ pc = "formatted"
     /\ origin \in {"value", "wide_value"}
     /\ NumericFields(val) # {}
     /\ \A f \in NumericFields(val) : FitsWidth(f[1], f[2]))
        => FixedWidthText(val, text)

\* A declaration with a turnpoint count of -2 and a task id of 1 was printed
\* in 25 bytes.
C29_Witness ==
    /\ pc = "formatted"
    /\ origin = "wide_value"
    /\ val.variant = "CDeclaration"
    /\ val.turnpoint_count = -2
    /\ val.task_id = 1
    /\ val.date.day = 10
    /\ val.time.hours = 9
    /\ Len(text) = 25
    /\ SubSeq(text, 20, 25) = <<"0", "0", "0", "1", "-", "2">>

\* C30: canonicalization is stable: for every line l that parse_line accepts,
\* with c the text of the parsed record, parse_line(c) succeeds with a record
\* equal to that of l (the same variant, the same C sub-kind), and formatting
\* it gives c again, whether or not c equals l.
C30_CanonicalStable ==
    origin = "line" =>
        /\ pc = "reparsed" =>
               /\ res2.tag = "Ok"
               /\ res2 = res
               /\ res2.v.variant = res.v.variant
        /\ pc = "done" => text2 = text

\* A line that differs from its canonical text was parsed, printed, parsed
\* and printed again.
C30_Witness ==
    /\ origin = "line"
    /\ pc = "done"
    /\ text # line
    /\ res2 = res
    /\ text2 = text

====
